---------------------------- MODULE Spec2Model ----------------------------
(***************************************************************************)
(* brachistools command line (src/brachistools/__main__.py): main() as a   *)
(* state machine over the parsed argparse namespace, the file system it    *)
(* reads and writes, the log and the parameter dictionaries; and the two   *)
(* label-map stages of the segmentation pipeline (WatershedLabeler,        *)
(* LabelMerger) whose contracts the design document fixes.                 *)
(***************************************************************************)
EXTENDS Integers, Sequences, FiniteSets, TLC

VARIABLES
    argv,            \* the namespace as parse_args() returned it
    args,            \* argparse.Namespace: attribute name -> value
    environ,         \* GUI_ENABLED, GUI_IMPORT, config.ini has [ModelParams]
    folder,          \* what load_folder(args.dir, ...) returns, in order
    files,           \* normalised paths of the input files that exist
    pc,              \* position of main()
    outcome,         \* how main() ended: returned, sys.exit, uncaught raise
    image_names,     \* main's image_names
    idx,             \* how many names the running for loop has been through
    attempted,       \* names whose loop body was entered, in order
    failed,          \* 1-based positions of the names whose body raised
    reads,           \* paths handed to imread / ET.parse, in order
    written,         \* [input, path] of every file written
    log,             \* records handed to logger.critical, in order
    rows,            \* rows of result.csv after the header
    printed,         \* lines printed to stdout
    calls,           \* gui.run() / config.write() calls that returned
    heap,            \* dict objects: id -> (key -> value)
    segment_params,  \* id of the dict main() calls segment_params
    mask,            \* BinaryMask: set of foreground pixels
    seeds,           \* seed pixels, in the order they get their IDs
    labels,          \* LabelMap: pixel -> instance ID, 0 = background
    min_size,        \* merge_small_labels:min_size
    stage,           \* position of the label-map stages
    once,            \* the label map after one merge_small pass
    twice            \* the label map after a second merge_small pass

cliVars == <<argv, args, environ, folder, files, pc, outcome, image_names,
             idx, attempted, failed, reads, written, log, rows, printed,
             calls, heap, segment_params>>
pipeVars == <<mask, seeds, labels, min_size, stage, once, twice>>
vars == <<argv, args, environ, folder, files, pc, outcome, image_names, idx,
          attempted, failed, reads, written, log, rows, printed, calls, heap,
          segment_params, mask, seeds, labels, min_size, stage, once, twice>>

(***************************************************************************)
(* Bounds.                                                                 *)
(***************************************************************************)
MaxImages == 2

Stems == {"a", "b", "c"}

(***************************************************************************)
(* Python values.  A str used as a path is [py, abs, parts]: parts are the *)
(* components between the separators and a component is a sequence of      *)
(* tokens, "a_seg.xml" being <<"a", "_seg", ".", "xml">>.  The argparse    *)
(* defaults [] and None are values with their own py tag.                  *)
(***************************************************************************)
Str(a, ps) == [py |-> "str", abs |-> a, parts |-> ps]
EmptyList == [py |-> "list", abs |-> FALSE, parts |-> <<>>]
None == [py |-> "None", abs |-> FALSE, parts |-> <<>>]
DotName == <<".">>

\* bool(v) of an argument value: [], None and "" are false
Truthy(v) == v.py = "str" /\ (v.abs \/ v.parts # <<>>)

Front(s) == SubSeq(s, 1, Len(s) - 1)
Last(s) == s[Len(s)]

\* os.path.join(a, b): an absolute b discards a
os_path_join(a, b) ==
    IF b.abs THEN b ELSE Str(a.abs, a.parts \o b.parts)

\* str(Path(p).parent): the parent of a bare relative name is "."
Path_parent(p) ==
    IF Len(p.parts) <= 1 /\ ~p.abs THEN Str(FALSE, <<DotName>>)
    ELSE Str(p.abs, Front(p.parts))

\* position of the last "." token of a name that starts an extension; 0 if none
ExtAt(name) ==
    LET dots == {i \in 2..Len(name) : name[i] = "."}
    IN  IF dots = {} THEN 0 ELSE CHOOSE i \in dots : \A j \in dots : j <= i

\* os.path.splitext(p)[0]
os_path_splitext_root(p) ==
    IF p.parts = <<>> THEN p
    ELSE LET name == Last(p.parts)
             at == ExtAt(name)
         IN  IF at = 0 THEN p
             ELSE Str(p.abs, Front(p.parts) \o <<SubSeq(name, 1, at - 1)>>)

\* p + suffix, for a str p and the tokens of suffix
StrCat(p, toks) ==
    IF p.parts = <<>> THEN Str(p.abs, <<toks>>)
    ELSE Str(p.abs, Front(p.parts) \o <<Last(p.parts) \o toks>>)

\* p.endswith(tok)
EndsWith(p, tok) ==
    /\ p.parts # <<>>
    /\ Last(p.parts) # <<>>
    /\ Last(Last(p.parts)) = tok

\* p[:-4] for a p that ends with the four characters "_seg"
DropLastToken(p) == Str(p.abs, Front(p.parts) \o <<Front(Last(p.parts))>>)

\* the file a path names: "." components name no directory of their own
Normalize(p) ==
    Str(p.abs, SelectSeq(p.parts, LAMBDA c : c # DotName))

\* the directory holding the file a path names
DirOf(p) == LET n == Normalize(p) IN Str(n.abs, Front(n.parts))


(***************************************************************************)
(* Parameter dictionaries.  Float parameters are held in tenths (1.0 is    *)
(* 10).  A dict object is a function key -> value, a value being           *)
(* [val |-> number] or [ref |-> id of a nested dict].                      *)
(***************************************************************************)
\* brachistools.segmentation.default_segmentation_params: the keys
\* get_arg_parser reads; the numbers stand for the documented defaults
default_segmentation_params ==
    [vahadane             |-> [sparsity_regularizer |-> 10],
     equalize_adapthist   |-> [clip_limit |-> 1],
     remove_small_objects |-> [min_size |-> 3],
     remove_small_holes   |-> [area_threshold |-> 3],
     peak_local_max       |-> [min_distance |-> 2, threshold_rel |-> 5],
     merge_small_labels   |-> [min_size |-> 2]]

StageKeys == DOMAIN default_segmentation_params
DefaultId == "default_segmentation_params"
CopyId == "dict#copy"
ObjIds == {DefaultId, CopyId} \cup StageKeys

\* the module-level dict and its nested per-stage dicts, before main() runs
InitHeap ==
    [o \in ObjIds |->
        IF o = DefaultId THEN [k \in StageKeys |-> [ref |-> k]]
        ELSE IF o \in StageKeys
             THEN [p \in DOMAIN default_segmentation_params[o] |->
                       [val |-> default_segmentation_params[o][p]]]
             ELSE <<>>]

\* the defaults of the segment subcommand's own arguments
SegmentArgDefaults ==
    [vahadane_sparsity_regularizer |->
         default_segmentation_params.vahadane.sparsity_regularizer,
     equalize_adapthist_clip_limit |->
         default_segmentation_params.equalize_adapthist.clip_limit,
     small_objects_min_size |->
         default_segmentation_params.remove_small_objects.min_size,
     small_holes_area_threshold |->
         default_segmentation_params.remove_small_holes.area_threshold,
     local_max_min_distance |->
         default_segmentation_params.peak_local_max.min_distance,
     local_max_threshold_rel |->
         default_segmentation_params.peak_local_max.threshold_rel,
     small_labels_min_size |->
         default_segmentation_params.merge_small_labels.min_size]

\* dict.copy(): a new dict holding the same values (nested dicts are shared)
dict_alias(h, src, fresh) == [id |-> src, heap |-> h]
dict_copy(h, src, fresh) == [id |-> fresh, heap |-> [h EXCEPT ![fresh] = h[src]]]

\* d[key] = value
dict_setitem(h, id, key, value) ==
    [h EXCEPT ![id] = (key :> [val |-> value]) @@ h[id]]

\* segment_params as lines 208-215 build it
BuildSegmentParams(h, a) ==
    LET c  == dict_copy(h, DefaultId, CopyId)
        h1 == dict_setitem(c.heap, c.id, "vahadane:sparsity_regularizer",
                           a.vahadane_sparsity_regularizer)
        h2 == dict_setitem(h1, c.id, "equalize_adapthist:clip_limit",
                           a.equalize_adapthist_clip_limit)
        h3 == dict_setitem(h2, c.id, "remove_small_objects:min_size",
                           a.small_objects_min_size)
        h4 == dict_setitem(h3, c.id, "remove_small_holes:area_threshold",
                           a.small_holes_area_threshold)
        h5 == dict_setitem(h4, c.id, "peak_local_max:min_distance",
                           a.local_max_min_distance)
        h6 == dict_setitem(h5, c.id, "peak_local_max:threshold_rel",
                           a.local_max_threshold_rel)
        h7 == dict_setitem(h6, c.id, "merge_small_labels:min_size",
                           a.small_labels_min_size)
    IN  [id |-> c.id, heap |-> h7]

\* the documented ranges of the stage-qualified parameters (floats in tenths)
ParamsInRange(d) ==
    /\ d["vahadane:sparsity_regularizer"].val > 0
    /\ d["equalize_adapthist:clip_limit"].val > 0
    /\ d["equalize_adapthist:clip_limit"].val <= 10
    /\ d["remove_small_objects:min_size"].val >= 0
    /\ d["remove_small_holes:area_threshold"].val >= 0
    /\ d["peak_local_max:min_distance"].val >= 1
    /\ d["peak_local_max:threshold_rel"].val >= 0
    /\ d["peak_local_max:threshold_rel"].val <= 10
    /\ d["merge_small_labels:min_size"].val >= 0

(***************************************************************************)
(* Exceptions and logging.                                                 *)
(***************************************************************************)
NoExc == "none"
ExceptionSubclasses ==
    {"FileNotFoundError", "OSError", "ParseError", "MalformedDocumentError",
     "InvalidParameterError", "DeconvolutionError", "NoSectionError",
     "AttributeError", "TypeError"}

\* the except clause of the show and segment loops
except_OSError(type) == type \in {"FileNotFoundError", "OSError"}
except_Exception(type) == type \in ExceptionSubclasses

FormatFailed == [ok |-> FALSE, text |-> <<>>]

\* fmt % fargs: "%s" takes the next argument, "%%" is a literal percent sign
\* and takes none; too few or too many arguments raise TypeError
RECURSIVE PercentFormat(_, _)
PercentFormat(fmt, fargs) ==
    IF fmt = <<>>
    THEN IF fargs = <<>> THEN [ok |-> TRUE, text |-> <<>>] ELSE FormatFailed
    ELSE IF Head(fmt) = "%s"
         THEN IF fargs = <<>> THEN FormatFailed
              ELSE LET r == PercentFormat(Tail(fmt), Tail(fargs))
                   IN  IF r.ok
                       THEN [ok |-> TRUE,
                             text |-> <<[str_of |-> Head(fargs)]>> \o r.text]
                       ELSE FormatFailed
         ELSE LET r == PercentFormat(Tail(fmt), fargs)
                  piece == IF Head(fmt) = "%%" THEN "%" ELSE Head(fmt)
              IN  IF r.ok
                  THEN [ok |-> TRUE, text |-> <<[lit |-> piece]>> \o r.text]
                  ELSE FormatFailed

\* LogRecord.getMessage(): msg % args only when there are args
getMessage(fmt, fargs) ==
    IF fargs = <<>>
    THEN [ok |-> TRUE, text |-> [i \in 1..Len(fmt) |-> [lit |-> fmt[i]]]]
    ELSE PercentFormat(fmt, fargs)

\* logger.critical(fmt, *fargs): Handler.emit formats the record and, when
\* formatting raises, calls handleError instead of writing the record out;
\* nothing is raised into the caller either way
logger_critical(origin, fmt, fargs) ==
    LET m == getMessage(fmt, fargs)
    IN  [origin |-> origin, level |-> "CRITICAL", emitted |-> m.ok,
         message |-> m.text, fargs |-> fargs]

ShowFailureFormat ==
    <<"Failed to transform segmentation XML '", "%%",
      "' due to exception: ", "%%">>
SegmentFailureFormat ==
    <<"Failed to segmentation picture '", "%%",
      "' due to exception: ", "%%">>


(***************************************************************************)
(* Command lines: what get_arg_parser().parse_args() can return.  Only the *)
(* segment, classify and show subparsers inherit the input and output      *)
(* arguments; gui, config, version and a missing subcommand do not.        *)
(***************************************************************************)
Commands == {"segment", "classify", "config", "show", "gui", "version", "(none)"}
WithCommonArgs == {"segment", "classify", "show"}

\* an input file name of a command: XML for show, a picture otherwise
InputName(cmd, stem) ==
    IF cmd = "show"
    THEN IF stem = "b" THEN <<stem, ".", "xml">>
         ELSE <<stem, "_seg", ".", "xml">>
    ELSE <<stem, ".", "png">>

DirChoices == {EmptyList, Str(FALSE, << <<"in">> >>), Str(FALSE, <<DotName>>)}
ImagePathChoices(cmd) ==
    {EmptyList,
     Str(FALSE, <<InputName(cmd, "a")>>),
     Str(FALSE, << <<"sub">>, InputName(cmd, "a")>>),
     Str(TRUE, << <<"data">>, InputName(cmd, "a")>>)}
SaveDirChoices == {None, Str(FALSE, << <<"out">> >>)}

CommonArgs(cmd) ==
    {[dir |-> d, image_path |-> ip,
      ignored_suffixes |-> <<"_mask", "_xml2seg">>,
      save_format |-> "PNG", save_dir |-> sd, save_npy |-> n] :
        d \in DirChoices, ip \in ImagePathChoices(cmd),
        sd \in SaveDirChoices, n \in BOOLEAN}

\* the defaults, or one parameter given on the command line (floats in tenths)
SegmentArgs ==
    {SegmentArgDefaults}
    \cup {[SegmentArgDefaults EXCEPT !.equalize_adapthist_clip_limit = v] :
              v \in {0, 5, 20}}
    \cup {[SegmentArgDefaults EXCEPT !.local_max_min_distance = v] : v \in {0}}
    \cup {[SegmentArgDefaults EXCEPT !.local_max_threshold_rel = v] : v \in {11}}
    \cup {[SegmentArgDefaults EXCEPT !.vahadane_sparsity_regularizer = v] :
              v \in {0}}
    \cup {[SegmentArgDefaults EXCEPT !.small_labels_min_size = v] : v \in {5}}

Namespaces ==
    {[verbose |-> v, command |-> c] :
         v \in BOOLEAN, c \in {"gui", "version", "(none)"}}
    \cup {[verbose |-> v, command |-> "config", param_dir |-> "models"] :
              v \in BOOLEAN}
    \cup {[verbose |-> v, command |-> "classify"] @@ a :
              v \in BOOLEAN, a \in CommonArgs("classify")}
    \cup {[verbose |-> v, command |-> "show"] @@ a :
              v \in BOOLEAN, a \in CommonArgs("show")}
    \cup {[verbose |-> v, command |-> "segment"] @@ a @@ g :
              v \in BOOLEAN, a \in CommonArgs("segment"), g \in SegmentArgs}

\* the folder's candidate files in load_folder's order, as bare names
Listings(cmd) ==
    LET orders == UNION {[1..n -> Stems] : n \in 0..MaxImages}
    IN  {[i \in DOMAIN o |-> Str(FALSE, <<InputName(cmd, o[i])>>)] :
            o \in {q \in orders : \A i, j \in DOMAIN q : q[i] = q[j] => i = j}}

Folders(a) ==
    IF "dir" \in DOMAIN a /\ Truthy(a.dir) THEN Listings(a.command)
    ELSE {<<>>}

\* the input files on disk: the folder's files, and the --image_path file
ExistingFiles(a, fl) ==
    IF "dir" \notin DOMAIN a THEN {}
    ELSE {Normalize(os_path_join(a.dir, fl[i])) : i \in DOMAIN fl}
         \cup (IF Truthy(a.image_path) THEN {Normalize(a.image_path)} ELSE {})

\* the import of brachistools.gui at lines 12-23, and config.ini on disk
Environs(a) ==
    {[GUI_ENABLED |-> g, config_ini |-> c] :
        g \in (IF a.command = "gui" THEN BOOLEAN ELSE {TRUE}),
        c \in (IF a.command = "config"
               THEN {"missing", "malformed", "no_section", "ok"} ELSE {"ok"})}

Running == [kind |-> "running", exc |-> NoExc]
Returned == [kind |-> "returned", exc |-> NoExc]
SysExit == [kind |-> "sys.exit", exc |-> NoExc]
Raised(type) == [kind |-> "raised", exc |-> type]

PipeIdle ==
    /\ mask = {}
    /\ seeds = <<>>
    /\ labels = <<>>
    /\ min_size = 0
    /\ stage = "idle"
    /\ once = <<>>
    /\ twice = <<>>

Init ==
    /\ argv \in Namespaces
    /\ args = argv
    /\ environ \in Environs(argv)
    /\ folder \in Folders(argv)
    /\ files = ExistingFiles(argv, folder)
    /\ pc = "main"
    /\ outcome = Running
    /\ image_names = <<>>
    /\ idx = 0
    /\ attempted = <<>>
    /\ failed = {}
    /\ reads = <<>>
    /\ written = {}
    /\ log = <<>>
    /\ rows = <<>>
    /\ printed = <<>>
    /\ calls = <<>>
    /\ heap = InitHeap
    /\ segment_params = "unbound"
    /\ PipeIdle


(***************************************************************************)
(* main(), lines 114-181: the commands that take no input, and the choice  *)
(* of the input names.                                                     *)
(***************************************************************************)
\* lines 117-119
Version ==
    /\ pc = "main"
    /\ args.command = "version"
    /\ printed' = Append(printed, "version_str")
    /\ pc' = "done"
    /\ outcome' = Returned
    /\ UNCHANGED <<argv, args, environ, folder, files, image_names, idx,
                   attempted, failed, reads, written, log, rows, calls, heap,
                   segment_params>>
    /\ UNCHANGED pipeVars

\* lines 131-139: without the GUI import main() exits, else gui.run() returns
\* when the window is closed and main() goes on
Gui ==
    /\ pc = "main"
    /\ args.command = "gui"
    /\ IF ~environ.GUI_ENABLED
       THEN /\ printed' = printed \o <<"GUI ERROR:", "GUI FAILED", "pip install">>
            /\ pc' = "done"
            /\ outcome' = SysExit
            /\ calls' = calls
       ELSE /\ calls' = Append(calls, "gui.run")
            /\ pc' = "prepare"
            /\ UNCHANGED <<printed, outcome>>
    /\ UNCHANGED <<argv, args, environ, folder, files, image_names, idx,
                   attempted, failed, reads, written, log, rows, heap,
                   segment_params>>
    /\ UNCHANGED pipeVars

\* lines 141-155: config.read raising is caught; config.set raises
\* NoSectionError unless config.ini has a [ModelParams] section
Config ==
    /\ pc = "main"
    /\ args.command = "config"
    /\ IF environ.config_ini = "malformed"
       THEN /\ log' = Append(log, logger_critical("config",
                                 <<"Failed to open config file">>, <<>>))
            /\ pc' = "done"
            /\ outcome' = SysExit
            /\ calls' = calls
       ELSE IF environ.config_ini # "ok"
       THEN /\ pc' = "done"
            /\ outcome' = Raised("NoSectionError")
            /\ UNCHANGED <<log, calls>>
       ELSE /\ calls' = Append(calls, "config.write")
            /\ pc' = "prepare"
            /\ UNCHANGED <<log, outcome>>
    /\ UNCHANGED <<argv, args, environ, folder, files, image_names, idx,
                   attempted, failed, reads, written, rows, printed, heap,
                   segment_params>>
    /\ UNCHANGED pipeVars

\* lines 157-160: args.dir and args.image_path are read whatever the command
Prepare ==
    /\ \/ pc = "prepare"
       \/ pc = "main" /\ args.command \notin {"version", "gui", "config"}
    /\ IF "dir" \notin DOMAIN args
       THEN /\ pc' = "done"
            /\ outcome' = Raised("AttributeError")
            /\ log' = log
       ELSE IF Truthy(args.dir) /\ Truthy(args.image_path)
       THEN /\ log' = Append(log, logger_critical("prepare",
                          <<"Cannot specify both --dir and --image_path">>, <<>>))
            /\ pc' = "done"
            /\ outcome' = SysExit
       ELSE /\ pc' = "select"
            /\ UNCHANGED <<log, outcome>>
    /\ UNCHANGED <<argv, args, environ, folder, files, image_names, idx,
                   attempted, failed, reads, written, rows, printed, calls,
                   heap, segment_params>>
    /\ UNCHANGED pipeVars

\* where main() goes after the input names are chosen
Dispatch(cmd) ==
    CASE cmd = "show" -> "show"
      [] cmd = "segment" -> "segment_setup"
      [] cmd = "classify" -> "classify_open"
      [] OTHER -> "done"

\* lines 180-181: an omitted --save_dir becomes the input directory
WithSaveDir(a) ==
    IF ~Truthy(a.save_dir) THEN [a EXCEPT !.save_dir = a.dir] ELSE a

\* lines 162-181
Select ==
    /\ pc = "select"
    /\ IF Truthy(args.dir)
       THEN /\ image_names' = folder
            /\ args' = WithSaveDir(args)
            /\ pc' = Dispatch(args.command)
            /\ UNCHANGED <<log, outcome>>
       ELSE IF Truthy(args.image_path)
       THEN /\ image_names' = <<args.image_path>>
            /\ args' = WithSaveDir(
                           [args EXCEPT !.dir = Path_parent(args.image_path)])
            /\ pc' = Dispatch(args.command)
            /\ UNCHANGED <<log, outcome>>
       ELSE /\ log' = Append(log, logger_critical("select",
                                 <<"Input is not specified">>, <<>>))
            /\ pc' = "done"
            /\ outcome' = SysExit
            /\ UNCHANGED <<image_names, args>>
    /\ UNCHANGED <<argv, environ, folder, files, idx, attempted, failed,
                   reads, written, rows, printed, calls, heap, segment_params>>
    /\ UNCHANGED pipeVars

\* savepath(fn), lines 183-184
savepath(fn) == os_path_join(args.save_dir, fn)


(***************************************************************************)
(* The three batch loops, lines 186-245.  One action runs one pass of a    *)
(* loop body; `fault` is the call of the body that fails for a reason of   *)
(* its own (an unreadable picture, a full disk, a malformed document).     *)
(***************************************************************************)
ShowFaults == {"none", "parse", "xml_to_labels", "imsave", "save_npy"}
SegmentFaults == {"none", "imread", "pipeline", "imsave", "write_xml",
                  "save_npy_mask", "save_npy_labels"}
ClassifyFaults == {"none", "imread", "classification_pipeline"}
Classes == {"benign", "malignant"}

\* segmentation_pipeline(image, params): the configuration is checked against
\* its documented ranges when the pipeline is entered; the dict is only read
segmentation_pipeline(params, fault) ==
    IF ~ParamsInRange(params) THEN "InvalidParameterError"
    ELSE IF fault = "pipeline" THEN "DeconvolutionError"
    ELSE NoExc

\* lines 193-201: the body of the show loop for seg_xml
ShowBody(seg_xml, fault) ==
    LET root0   == os_path_splitext_root(seg_xml)
        root_fn == IF EndsWith(root0, "_seg") THEN DropLastToken(root0)
                   ELSE root0
        src     == os_path_join(args.dir, seg_xml)
        pic     == savepath(StrCat(root_fn, <<"_xml2seg", ".", "PNG">>))
        npy     == savepath(StrCat(root_fn, <<"_xml2seg", ".", "npy">>))
    IN  IF Normalize(src) \notin files
        THEN [reads |-> <<src>>, writes |-> {}, exc |-> "FileNotFoundError"]
        ELSE IF fault = "parse"
        THEN [reads |-> <<src>>, writes |-> {}, exc |-> "ParseError"]
        ELSE IF fault = "xml_to_labels"
        THEN [reads |-> <<src>>, writes |-> {},
              exc |-> "MalformedDocumentError"]
        ELSE IF fault = "imsave"
        THEN [reads |-> <<src>>, writes |-> {}, exc |-> "OSError"]
        ELSE IF ~args.save_npy
        THEN [reads |-> <<src>>, writes |-> {pic}, exc |-> NoExc]
        ELSE IF fault = "save_npy"
        THEN [reads |-> <<src>>, writes |-> {pic}, exc |-> "OSError"]
        ELSE [reads |-> <<src>>, writes |-> {pic, npy}, exc |-> NoExc]

\* lines 219-228: the body of the segment loop for fn
SegmentBody(fn, fault) ==
    LET src    == os_path_join(args.dir, fn)
        root   == os_path_splitext_root(fn)
        png    == savepath(StrCat(root, <<"_mask", ".", args.save_format>>))
        xml    == savepath(StrCat(root, <<"_seg", ".", "xml">>))
        npy    == savepath(StrCat(root, <<"_mask", ".", "npy">>))
        npyl   == savepath(StrCat(root, <<"_mask_labels", ".", "npy">>))
        piped  == segmentation_pipeline(heap[segment_params], fault)
    IN  IF Normalize(src) \notin files
        THEN [reads |-> <<src>>, writes |-> {}, exc |-> "FileNotFoundError"]
        ELSE IF fault = "imread"
        THEN [reads |-> <<src>>, writes |-> {}, exc |-> "OSError"]
        ELSE IF piped # NoExc
        THEN [reads |-> <<src>>, writes |-> {}, exc |-> piped]
        ELSE IF fault = "imsave"
        THEN [reads |-> <<src>>, writes |-> {}, exc |-> "OSError"]
        ELSE IF fault = "write_xml"
        THEN [reads |-> <<src>>, writes |-> {png}, exc |-> "OSError"]
        ELSE IF ~args.save_npy
        THEN [reads |-> <<src>>, writes |-> {png, xml}, exc |-> NoExc]
        ELSE IF fault = "save_npy_mask"
        THEN [reads |-> <<src>>, writes |-> {png, xml}, exc |-> "OSError"]
        ELSE IF fault = "save_npy_labels"
        THEN [reads |-> <<src>>, writes |-> {png, xml, npy}, exc |-> "OSError"]
        ELSE [reads |-> <<src>>, writes |-> {png, xml, npy, npyl},
              exc |-> NoExc]

\* lines 242-243: the picture is read by its bare name, and classified
ClassifyBody(fn, fault) ==
    IF Normalize(fn) \notin files
    THEN [reads |-> <<fn>>, writes |-> {}, exc |-> "FileNotFoundError"]
    ELSE IF fault = "imread"
    THEN [reads |-> <<fn>>, writes |-> {}, exc |-> "OSError"]
    ELSE IF fault = "classification_pipeline"
    THEN [reads |-> <<fn>>, writes |-> {}, exc |-> "TypeError"]
    ELSE [reads |-> <<fn>>, writes |-> {}, exc |-> NoExc]

\* one pass of a try/except loop body over image_names[idx] with result r:
\* an exception the except clause names is logged and the loop goes on
TryPass(origin, fmt, fn, r) ==
    /\ attempted' = Append(attempted, fn)
    /\ reads' = reads \o r.reads
    /\ written' = written \cup {[input |-> fn, path |-> w] : w \in r.writes}
    /\ IF r.exc = NoExc
       THEN /\ idx' = idx + 1
            /\ UNCHANGED <<failed, log, pc, outcome>>
       ELSE /\ failed' = failed \cup {idx + 1}
            /\ IF except_Exception(r.exc)
               THEN /\ log' = Append(log, logger_critical(origin, fmt,
                                         <<fn, [type |-> r.exc]>>))
                    /\ idx' = idx + 1
                    /\ UNCHANGED <<pc, outcome>>
               ELSE /\ pc' = "done"
                    /\ outcome' = Raised(r.exc)
                    /\ UNCHANGED <<log, idx>>

\* lines 191-205
ShowItem ==
    /\ pc = "show"
    /\ idx < Len(image_names)
    /\ \E fault \in ShowFaults :
          TryPass("show", ShowFailureFormat, image_names[idx + 1],
                  ShowBody(image_names[idx + 1], fault))
    /\ UNCHANGED <<argv, args, environ, folder, files, image_names, rows,
                   printed, calls, heap, segment_params>>
    /\ UNCHANGED pipeVars

\* lines 207-215
SegmentSetup ==
    /\ pc = "segment_setup"
    /\ LET b == BuildSegmentParams(heap, args)
       IN  /\ heap' = b.heap
           /\ segment_params' = b.id
    /\ pc' = "segment"
    /\ UNCHANGED <<argv, args, environ, folder, files, outcome, image_names,
                   idx, attempted, failed, reads, written, log, rows, printed,
                   calls>>
    /\ UNCHANGED pipeVars

\* lines 217-232
SegmentItem ==
    /\ pc = "segment"
    /\ idx < Len(image_names)
    /\ \E fault \in SegmentFaults :
          TryPass("segment", SegmentFailureFormat, image_names[idx + 1],
                  SegmentBody(image_names[idx + 1], fault))
    /\ UNCHANGED <<argv, args, environ, folder, files, image_names, rows,
                   printed, calls, heap, segment_params>>
    /\ UNCHANGED pipeVars

\* lines 235-239: result.csv is opened and its header written
ClassifyOpen ==
    /\ pc = "classify_open"
    /\ calls' = Append(calls, "writeheader")
    /\ pc' = "classify"
    /\ UNCHANGED <<argv, args, environ, folder, files, outcome, image_names,
                   idx, attempted, failed, reads, written, log, rows, printed,
                   heap, segment_params>>
    /\ UNCHANGED pipeVars

\* lines 241-245: no try statement encloses the body
ClassifyItem ==
    /\ pc = "classify"
    /\ idx < Len(image_names)
    /\ \E fault \in ClassifyFaults, predict_class \in Classes :
          LET fn == image_names[idx + 1]
              r  == ClassifyBody(fn, fault)
          IN  /\ attempted' = Append(attempted, fn)
              /\ reads' = reads \o r.reads
              /\ IF r.exc = NoExc
                 THEN /\ rows' = Append(rows, [name |-> fn,
                                               predict |-> predict_class])
                      /\ idx' = idx + 1
                      /\ UNCHANGED <<failed, pc, outcome>>
                 ELSE /\ failed' = failed \cup {idx + 1}
                      /\ pc' = "done"
                      /\ outcome' = Raised(r.exc)
                      /\ UNCHANGED <<rows, idx>>
    /\ UNCHANGED <<argv, args, environ, folder, files, image_names, written,
                   log, printed, calls, heap, segment_params>>
    /\ UNCHANGED pipeVars

\* a for loop that has run out of names: main() returns
LoopEnd ==
    /\ pc \in {"show", "segment", "classify"}
    /\ idx = Len(image_names)
    /\ pc' = "done"
    /\ outcome' = Returned
    /\ UNCHANGED <<argv, args, environ, folder, files, image_names, idx,
                   attempted, failed, reads, written, log, rows, printed,
                   calls, heap, segment_params>>
    /\ UNCHANGED pipeVars

Next ==
    \/ Version
    \/ Gui
    \/ Config
    \/ Prepare
    \/ Select
    \/ ShowItem
    \/ SegmentSetup
    \/ SegmentItem
    \/ ClassifyOpen
    \/ ClassifyItem
    \/ LoopEnd

Spec == Init /\ [][Next]_vars


(***************************************************************************)
(* The label-map stages of the segmentation pipeline, on a small raster.   *)
(***************************************************************************)
GridW == 2
MaxLabel == 3
MaxK == 3

Rows == {0, 1}
Pixels == (0..(GridW - 1)) \X Rows
Background == [p \in Pixels |-> 0]

\* 4-connectivity, held fixed
Adjacent(p, q) ==
    \/ p[1] = q[1] /\ (p[2] - q[2] = 1 \/ q[2] - p[2] = 1)
    \/ p[2] = q[2] /\ (p[1] - q[1] = 1 \/ q[1] - p[1] = 1)

Ids(L) == {L[p] : p \in Pixels} \ {0}
Area(L, i) == Cardinality({p \in Pixels : L[p] = i})

\* the instances sharing a boundary with instance i
Touching(L, i) ==
    {L[q] : q \in {r \in Pixels : \E p \in Pixels : L[p] = i /\ Adjacent(p, r)}}
        \ {0, i}

\* the largest touching neighbour; the lowest ID among equally large ones
LargestNeighbour(L, i) ==
    CHOOSE n \in Touching(L, i) :
        \A m \in Touching(L, i) :
            \/ Area(L, n) > Area(L, m)
            \/ Area(L, n) = Area(L, m) /\ n <= m

Reassign(L, i, n) == [p \in Pixels |-> IF L[p] = i THEN n ELSE L[p]]

\* the turn of instance i: merged when undersized and touching an instance
MergeInstance(L, i, k) ==
    IF Area(L, i) > 0 /\ Area(L, i) < k /\ Touching(L, i) # {}
    THEN Reassign(L, i, LargestNeighbour(L, i))
    ELSE L

RECURSIVE MergeFrom(_, _, _)
MergeFrom(L, i, k) ==
    IF i > MaxLabel THEN L ELSE MergeFrom(MergeInstance(L, i, k), i + 1, k)

\* every merge decided on the input map and applied at once
merge_small_at_once(L, k) ==
    [p \in Pixels |->
        IF L[p] # 0 /\ Area(L, L[p]) < k /\ Touching(L, L[p]) # {}
        THEN LargestNeighbour(L, L[p]) ELSE L[p]]

\* LabelMerger.merge_small: one pass over the instances in ascending ID order
merge_small(L, k) == MergeFrom(L, 1, k)

\* WatershedLabeler: a flooded region may take an unlabelled pixel next to it,
\* inside the mask only
CanFloodAnywhere(m, L, p, q) == L[p] = 0 /\ L[q] # 0 /\ Adjacent(p, q)
CanFlood(m, L, p, q) == p \in m /\ L[p] = 0 /\ L[q] # 0 /\ Adjacent(p, q)

\* the seeds SeedDetector can return: distinct foreground pixels
SeedSequences(m) ==
    LET picks == UNION {[1..n -> m] : n \in 0..MaxLabel}
    IN  {q \in picks : \A i, j \in DOMAIN q : q[i] = q[j] => i = j}

CliIdle ==
    /\ argv = [verbose |-> FALSE, command |-> "(none)"]
    /\ args = argv
    /\ environ = [GUI_ENABLED |-> TRUE, config_ini |-> "ok"]
    /\ folder = <<>>
    /\ files = {}
    /\ pc = "idle"
    /\ outcome = Running
    /\ image_names = <<>>
    /\ idx = 0
    /\ attempted = <<>>
    /\ failed = {}
    /\ reads = <<>>
    /\ written = {}
    /\ log = <<>>
    /\ rows = <<>>
    /\ printed = <<>>
    /\ calls = <<>>
    /\ heap = InitHeap
    /\ segment_params = "unbound"

(***************************************************************************)
(* WatershedLabeler.label followed by LabelMerger.merge_small, as the      *)
(* pipeline runs them on one mask.                                         *)
(***************************************************************************)
InitLabel ==
    /\ CliIdle
    /\ mask \in SUBSET Pixels
    /\ seeds \in SeedSequences(mask)
    /\ min_size \in 0..MaxK
    /\ labels = Background
    /\ stage = "seeds"
    /\ once = <<>>
    /\ twice = <<>>

\* each seed gets its own positive ID
PlaceSeeds ==
    /\ stage = "seeds"
    /\ labels' = [p \in Pixels |->
                     IF \E i \in DOMAIN seeds : seeds[i] = p
                     THEN CHOOSE i \in DOMAIN seeds : seeds[i] = p
                     ELSE 0]
    /\ stage' = "flooding"
    /\ UNCHANGED <<mask, seeds, min_size, once, twice>>
    /\ UNCHANGED cliVars

\* one pixel is flooded from a neighbouring region
Flood ==
    /\ stage = "flooding"
    /\ \E p \in Pixels, q \in Pixels :
          /\ CanFlood(mask, labels, p, q)
          /\ labels' = [labels EXCEPT ![p] = labels[q]]
    /\ UNCHANGED <<mask, seeds, min_size, stage, once, twice>>
    /\ UNCHANGED cliVars

\* nothing is left to flood: label() returns its LabelMap
FloodDone ==
    /\ stage = "flooding"
    /\ ~\E p \in Pixels, q \in Pixels : CanFlood(mask, labels, p, q)
    /\ once' = labels
    /\ stage' = "labelled"
    /\ UNCHANGED <<mask, seeds, labels, min_size, twice>>
    /\ UNCHANGED cliVars

\* the pipeline's last stage
MergeLabels ==
    /\ stage = "labelled"
    /\ labels' = merge_small(labels, min_size)
    /\ stage' = "returned"
    /\ UNCHANGED <<mask, seeds, min_size, once, twice>>
    /\ UNCHANGED cliVars

NextLabel == PlaceSeeds \/ Flood \/ FloodDone \/ MergeLabels

SpecLabel == InitLabel /\ [][NextLabel]_vars

(***************************************************************************)
(* LabelMerger.merge_small run twice on an arbitrary label map.            *)
(***************************************************************************)
InitMerge ==
    /\ CliIdle
    /\ labels \in [Pixels -> 0..MaxLabel]
    /\ min_size \in 0..MaxK
    /\ mask = {p \in Pixels : labels[p] # 0}
    /\ seeds = <<>>
    /\ stage = "merge"
    /\ once = <<>>
    /\ twice = <<>>

MergeOnce ==
    /\ stage = "merge"
    /\ once' = merge_small(labels, min_size)
    /\ stage' = "merged"
    /\ UNCHANGED <<mask, seeds, labels, min_size, twice>>
    /\ UNCHANGED cliVars

MergeAgain ==
    /\ stage = "merged"
    /\ twice' = merge_small(once, min_size)
    /\ stage' = "merged_again"
    /\ UNCHANGED <<mask, seeds, labels, min_size, once>>
    /\ UNCHANGED cliVars

NextMerge == MergeOnce \/ MergeAgain

SpecMerge == InitMerge /\ [][NextMerge]_vars


(***************************************************************************)
(* Properties of main().                                                   *)
(***************************************************************************)
Range(q) == {q[i] : i \in DOMAIN q}

\* C1: in the show and segment loops an exception raised while one name is
\* processed never leaves the loop: main() does not end by an uncaught raise,
\* the names gone through so far are exactly the first idx names in list
\* order, and a run that returns has attempted every name.
C1_BatchContinues ==
    argv.command \in {"show", "segment"} =>
        /\ outcome.kind # "raised"
        /\ pc \in {"show", "segment"} =>
               /\ attempted = SubSeq(image_names, 1, idx)
               /\ failed \subseteq 1..idx
        /\ outcome.kind = "returned" => attempted = image_names

\* a finished batch whose first name failed and whose later names were tried
C1_Witness ==
    /\ argv.command \in {"show", "segment"}
    /\ pc = "done"
    /\ outcome.kind = "returned"
    /\ 1 \in failed
    /\ Len(image_names) >= 2
    /\ attempted = image_names
    /\ \E w \in written : w.input = image_names[2]

\* C2 as stated: in the classify loop a failure on one picture does not
\* abort the batch, every later picture still gets its row in result.csv.
C2_ClassifyContinues ==
    (argv.command = "classify" /\ pc = "done") =>
        \A i \in 1..Len(image_names) :
            (\E f \in failed : f < i) =>
                \E j \in DOMAIN rows : rows[j].name = image_names[i]

\* the documented ranges, read off the command line (floats in tenths)
ArgsInRange(a) ==
    /\ a.vahadane_sparsity_regularizer > 0
    /\ a.equalize_adapthist_clip_limit > 0
    /\ a.equalize_adapthist_clip_limit <= 10
    /\ a.small_objects_min_size >= 0
    /\ a.small_holes_area_threshold >= 0
    /\ a.local_max_min_distance >= 1
    /\ a.local_max_threshold_rel >= 0
    /\ a.local_max_threshold_rel <= 10
    /\ a.small_labels_min_size >= 0

\* C3 as stated: with a segment parameter out of its documented range the
\* run fails before any picture is read: no picture is ever handed to imread.
C3_ValidatedBeforeWork ==
    (argv.command = "segment" /\ ~ArgsInRange(argv)) => reads = <<>>

\* segment_params as the command line determines it: the top-level entries
\* of the defaults plus one stage-qualified entry per argument
ExpectedSegmentParams(a) ==
    [k \in StageKeys |-> [ref |-> k]]
    @@ [k \in {"vahadane:sparsity_regularizer"} |->
            [val |-> a.vahadane_sparsity_regularizer]]
    @@ [k \in {"equalize_adapthist:clip_limit"} |->
            [val |-> a.equalize_adapthist_clip_limit]]
    @@ [k \in {"remove_small_objects:min_size"} |->
            [val |-> a.small_objects_min_size]]
    @@ [k \in {"remove_small_holes:area_threshold"} |->
            [val |-> a.small_holes_area_threshold]]
    @@ [k \in {"peak_local_max:min_distance"} |->
            [val |-> a.local_max_min_distance]]
    @@ [k \in {"peak_local_max:threshold_rel"} |->
            [val |-> a.local_max_threshold_rel]]
    @@ [k \in {"merge_small_labels:min_size"} |->
            [val |-> a.small_labels_min_size]]

\* C7: default_segmentation_params keeps its key set and every value, the
\* nested per-stage dicts included, and from the first picture of a batch to
\* the end of the run segment_params is the configuration the command line
\* determines.
C7_ConfigNeverMutated ==
    /\ \A o \in {DefaultId} \cup StageKeys : heap[o] = InitHeap[o]
    /\ segment_params # "unbound" =>
           heap[segment_params] = ExpectedSegmentParams(argv)

\* a finished batch of two pictures run with a parameter given on the
\* command line
C7_Witness ==
    /\ argv.command = "segment"
    /\ argv.equalize_adapthist_clip_limit = 5
    /\ pc = "done"
    /\ outcome.kind = "returned"
    /\ Len(attempted) >= 2
    /\ failed = {}

\* C8 as stated: every file written for an input lies directly inside
\* --save_dir when it is given, and inside the input's own directory
\* otherwise.
C8_OutputLocation ==
    \A w \in written :
        DirOf(w.path) =
            IF Truthy(argv.save_dir) THEN Normalize(argv.save_dir)
            ELSE IF Truthy(argv.dir) THEN DirOf(os_path_join(argv.dir, w.input))
            ELSE DirOf(argv.image_path)

\* C9 as stated: every record the show and segment handlers log is emitted
\* with a message that holds the file name and the exception.
C9_FailureLogged ==
    \A i \in DOMAIN log :
        log[i].origin \in {"show", "segment"} =>
            /\ log[i].emitted
            /\ [str_of |-> log[i].fargs[1]] \in Range(log[i].message)
            /\ [str_of |-> log[i].fargs[2]] \in Range(log[i].message)

\* C10 as stated: version prints and returns; after gui.run() has returned
\* or config.ini has been written main() ends without raising.
C10_CleanTermination ==
    /\ (argv.command = "version" /\ pc = "done") =>
           printed = <<"version_str">> /\ outcome = Returned
    /\ (argv.command \in {"gui", "config"} /\ pc = "done" /\ calls # <<>>) =>
           outcome = Returned

(***************************************************************************)
(* Properties of the label-map stages.                                     *)
(***************************************************************************)
\* C5: merging is idempotent: a second merge_small pass with the same
\* threshold returns the label map the first pass returned.
C5_MergeIdempotent ==
    stage = "merged_again" => twice = once

\* a first pass that merged at least two instances away
C5_Witness ==
    /\ stage = "merged_again"
    /\ Cardinality(Ids(labels)) >= Cardinality(Ids(once)) + 2
    /\ min_size >= 2

\* C6: every pixel with a non-zero label is a foreground pixel of the mask,
\* while the watershed floods from the seeds and after merge_small.
C6_LabelsInsideMask ==
    stage \in {"seeds", "flooding", "labelled", "returned"} =>
        \A p \in Pixels : labels[p] # 0 => p \in mask

\* a returned pair whose mask leaves background, whose flood went beyond the
\* seeds and whose merge changed the flooded map
C6_Witness ==
    /\ stage = "returned"
    /\ mask # Pixels
    /\ labels # once
    /\ \E p \in mask : p \notin Range(seeds) /\ once[p] # 0

=============================================================================
